---- MODULE Spec2Model ----
(***************************************************************************)
(* State-machine model of src/index.tsx of @notiboost/react-sdk:           *)
(*   - NotiBoostProvider: one client, the shared loading/error state and   *)
(*     the handleRequest envelope around the eight wrapped client calls;   *)
(*   - useNotiBoost / useEvent: access to the context;                      *)
(*   - useUser: the user snapshot, the hook's own loading/error, refresh,   *)
(*     the mount effect, update and setChannelData.                        *)
(* One action is one synchronous block of JavaScript (an event handler, a   *)
(* render with the effect it schedules, or the continuation of an await).   *)
(* React state is the value the next render sees: a setter applied to an    *)
(* unmounted hook instance is dropped.  The external client is opaque: the  *)
(* outcome of each of its promises is chosen nondeterministically when the  *)
(* continuation awaiting it runs, and a continuation may run at any later   *)
(* step: responses arrive in any order.  The continuations one settled      *)
(* promise makes runnable (handleRequest, then refresh, then update) are    *)
(* microtasks: in Spec they run before the next event (a response, a render *)
(* or a call made by the component) is handled.  The provider is mounted    *)
(* once and stays mounted; the component calling useUser may unmount and    *)
(* mount again.  SpecProvider exercises the provider with calls made        *)
(* directly on the context value; Spec exercises useUser, whose calls go    *)
(* through the same handleRequest envelope.                                 *)
(***************************************************************************)
EXTENDS Naturals, Sequences, FiniteSets

VARIABLES provMounted, props, client, built,
          loading, error, calls,
          hMounted, hGen, userId, user, hLoading, hError, hops, ev

vars == <<provMounted, props, client, built, loading, error, calls,
          hMounted, hGen, userId, user, hLoading, hError, hops, ev>>

\* ------------------------------------------------------------------ bounds
MaxDirect == 2
MaxCalls == 3
MaxHookOps == 2
MaxMounts == 2

\* ------------------------------------------------------------------ values
Ops == {"ingestEvent", "ingestEventBatch", "createUser", "getUser",
        "updateUser", "deleteUser", "setChannelData", "setPreferences"}

UserIds == {"", "u1", "u2"}
Configs == {"key1", "key2"}
Revs == {1, 2}

NullErr == [kind |-> "null"]
NullUser == [kind |-> "null"]
NoClient == [kind |-> "none"]
Undefined == [kind |-> "undefined"]

\* Values a client promise may reject with: a NotiBoostError, another Error
\* instance (here one that carries a status of its own), and a value that is
\* not an Error instance (an object literal with a message property).
ThrownValues ==
  { [kind |-> "NotiBoostError", message |-> "rate limited", statusCode |-> 429],
    [kind |-> "Error", message |-> "network down", statusCode |-> 503],
    [kind |-> "NonError", message |-> "plain object", statusCode |-> 400] }

\* Values a client promise may resolve with.
Results(uid) == { [kind |-> "record", id |-> uid, rev |-> r] : r \in Revs }

Outcomes(uid) ==
  { [ok |-> TRUE, val |-> v] : v \in Results(uid) } \cup
  { [ok |-> FALSE, val |-> t] : t \in ThrownValues }

\* ------------------------------------------------------- the bundled state
St == [loading |-> loading, error |-> error, calls |-> calls,
       hMounted |-> hMounted, hGen |-> hGen, userId |-> userId, user |-> user,
       hLoading |-> hLoading, hError |-> hError, hops |-> hops]

Apply(s) ==
  /\ loading' = s.loading
  /\ error' = s.error
  /\ calls' = s.calls
  /\ hMounted' = s.hMounted
  /\ hGen' = s.hGen
  /\ userId' = s.userId
  /\ user' = s.user
  /\ hLoading' = s.hLoading
  /\ hError' = s.hError
  /\ hops' = s.hops

\* ev describes the step just taken: its kind and what that step observed
\* (the settled call, the hook operation, the fetch an effect started in it).
\* A settled call or a finished hook operation is forgotten once nothing
\* awaits it any more: its record is replaced by Done.
NoEv == [kind |-> "none", effect |-> FALSE, auto |-> 0]

Done == [status |-> "done", pc |-> "done"]

\* ------------------------------------------------------------ the provider
\* Mutant: the client is built by every render (no lazy useState).
UseStateClient_EveryRender(mounted, current, cfg, n) ==
  [kind |-> "client", cfg |-> cfg, id |-> n + 1]

\* const [client] = useState(() => new NotiBoostClient({...})): the lazy
\* initialiser runs on the first render only.
UseStateClient(mounted, current, cfg, n) ==
  IF mounted THEN current ELSE [kind |-> "client", cfg |-> cfg, id |-> n + 1]

\* Mutant: every thrown value is wrapped, a NotiBoostError too.
Normalize_AlwaysWrap(err) ==
  [kind |-> "NotiBoostError",
   message |-> IF err.kind = "NonError" THEN "Unknown error" ELSE err.message,
   statusCode |-> 0]

\* err instanceof NotiBoostError ? err : new NotiBoostError(
\*   err instanceof Error ? err.message : 'Unknown error', 0)
Normalize(err) ==
  IF err.kind = "NotiBoostError" THEN err
  ELSE [kind |-> "NotiBoostError",
        message |-> IF err.kind = "Error" THEN err.message ELSE "Unknown error",
        statusCode |-> 0]

\* The client method each wrapped operation hands to handleRequest, which
\* calls it once.
ClientMethod(op) ==
  CASE op = "ingestEvent" -> "events.ingest"
    [] op = "ingestEventBatch" -> "events.ingestBatch"
    [] op = "createUser" -> "users.create"
    [] op = "getUser" -> "users.get"
    [] op = "updateUser" -> "users.update"
    [] op = "deleteUser" -> "users.delete"
    [] op = "setChannelData" -> "users.setChannelData"
    [] op = "setPreferences" -> "users.setPreferences"

\* Mutant: the request function is called a second time.
RequestFn_Twice(op) == <<ClientMethod(op), ClientMethod(op)>>

RequestFn(op) == <<ClientMethod(op)>>

SetLoadingEnter(s) == [s EXCEPT !.loading = TRUE]

\* Mutant: the error of an earlier call is kept when a call starts.
ClearErrorEnter_Keep(s) == s

ClearErrorEnter(s) == [s EXCEPT !.error = NullErr]

\* Mutant: the error is thrown without being stored.
SetErrorCatch_Skip(s, e) == s

SetErrorCatch(s, e) == [s EXCEPT !.error = e]

Pending(s) == { c \in 1..Len(s.calls) : s.calls[c].status = "pending" }

\* Mutant: no finally, loading is reset on the success path only.
SetLoadingFinally_SuccessOnly(s) ==
  IF s.error = NullErr THEN [s EXCEPT !.loading = FALSE] ELSE s

\* Mutant: loading counts the calls in flight and falls with the last one.
SetLoadingFinally_WhenIdle(s) == [s EXCEPT !.loading = (Pending(s) # {})]

SetLoadingFinally(s) == [s EXCEPT !.loading = FALSE]

\* The records of the calls made on behalf of hook operation h.
Owned(s, h) ==
  { c \in 1..Len(s.calls) : s.calls[c].status # "done" /\ s.calls[c].owner = h }

Forget(s, cs, hs) ==
  [s EXCEPT !.calls = [c \in 1..Len(s.calls) |-> IF c \in cs THEN Done ELSE s.calls[c]],
            !.hops = [h \in 1..Len(s.hops) |-> IF h \in hs THEN Done ELSE s.hops[h]]]

\* handleRequest up to its await: setLoading(true); setError(null);
\* requestFn().  The new call's id is Len(s.calls) + 1.
HandleRequestEnter(s, op, uid, owner) ==
  LET s1 == ClearErrorEnter(SetLoadingEnter(s))
      call == [op |-> op, uid |-> uid, owner |-> owner, status |-> "pending",
               val |-> Undefined, invoked |-> RequestFn(op), rejSince |-> FALSE]
  IN [s1 EXCEPT !.calls = Append(s.calls, call)]

\* Mutant: the success path writes the error too (setError(null) on return).
HandleRequestExit_ClearsError(s, c, o) ==
  IF o.ok
  THEN SetLoadingFinally(
         [s EXCEPT !.calls[c].status = "resolved", !.calls[c].val = o.val,
                   !.error = NullErr])
  ELSE LET notiBoostError == Normalize(o.val)
       IN SetLoadingFinally(SetErrorCatch(
            [s EXCEPT !.calls[c].status = "rejected", !.calls[c].val = notiBoostError],
            notiBoostError))

\* handleRequest from its await on: return result / catch / finally.
HandleRequestExit(s, c, o) ==
  IF o.ok
  THEN SetLoadingFinally(
         [s EXCEPT !.calls[c].status = "resolved", !.calls[c].val = o.val])
  ELSE LET notiBoostError == Normalize(o.val)
           marked == [d \in 1..Len(s.calls) |->
                        IF d # c /\ s.calls[d].status = "pending"
                        THEN [s.calls[d] EXCEPT !.rejSince = TRUE]
                        ELSE s.calls[d]]
           s1 == [s EXCEPT !.calls = [marked EXCEPT ![c].status = "rejected",
                                                     ![c].val = notiBoostError]]
       IN SetLoadingFinally(SetErrorCatch(s1, notiBoostError))

\* ------------------------------------------------------------ useNotiBoost
ContextValue(inside) ==
  IF inside /\ provMounted
  THEN [kind |-> "context", client |-> client, loading |-> loading, error |-> error]
  ELSE Undefined

\* Mutant: no check, the context is returned as it is.
UseNotiBoost_NoCheck(context) == [threw |-> FALSE, message |-> "", value |-> context]

\* if (!context) throw new Error('useNotiBoost must be used within ...')
UseNotiBoost(context) ==
  IF context = Undefined
  THEN [threw |-> TRUE,
        message |-> "useNotiBoost must be used within NotiBoostProvider",
        value |-> Undefined]
  ELSE [threw |-> FALSE, message |-> "", value |-> context]

\* ---------------------------------------------------------------- useEvent
\* Mutant: the hook keeps a loading and an error of its own.
UseEvent_OwnState(context) ==
  [ingest |-> "ingestEvent", ingestBatch |-> "ingestEventBatch",
   loading |-> FALSE, error |-> NullErr]

\* const { ingestEvent, ingestEventBatch, loading, error } = useNotiBoost();
\* return { ingest: ingestEvent, ingestBatch: ingestEventBatch, loading, error }
\* (a wrapped operation of the context is named by its key in the context).
UseEvent(context) ==
  [ingest |-> "ingestEvent", ingestBatch |-> "ingestEventBatch",
   loading |-> context.loading, error |-> context.error]

\* ---------------------------------------------------------------- useUser
\* A setter of the hook instance of mount generation gen; React drops it once
\* that instance is unmounted.
Live(s, gen) == s.hMounted /\ s.hGen = gen

SetUser(s, gen, v) == IF Live(s, gen) THEN [s EXCEPT !.user = v] ELSE s

SetHookLoading(s, gen, v) == IF Live(s, gen) THEN [s EXCEPT !.hLoading = v] ELSE s

SetHookError(s, gen, v) == IF Live(s, gen) THEN [s EXCEPT !.hError = v] ELSE s

\* Calls a hook operation awaiting its write will still need for its re-fetch.
Reserved(s) == Cardinality({ h \in 1..Len(s.hops) : s.hops[h].pc = "awaitWrite" })

Room(s, n) == Len(s.calls) + Reserved(s) + n <= MaxCalls

\* refresh up to its await, for the closure of userId uid and generation gen,
\* on behalf of hook operation h:
\*   if (!userId) return; setLoading(true); setError(null); getUser(userId)
RefreshEnter(s, uid, gen, h) ==
  IF uid = "" THEN s
  ELSE HandleRequestEnter(SetHookError(SetHookLoading(s, gen, TRUE), gen, NullErr),
                          "getUser", uid, h)

\* Mutant: no finally, a failed fetch leaves the hook's loading true.
RefreshExit_NoFinally(s, gen, c) ==
  IF s.calls[c].status = "resolved"
  THEN SetHookLoading(SetUser(s, gen, s.calls[c].val), gen, FALSE)
  ELSE SetHookError(s, gen, Normalize(s.calls[c].val))

\* refresh from its await on: setUser(userData) / catch setError / finally.
RefreshExit(s, gen, c) ==
  LET s1 == IF s.calls[c].status = "resolved"
            THEN SetUser(s, gen, s.calls[c].val)
            ELSE SetHookError(s, gen, Normalize(s.calls[c].val))
  IN SetHookLoading(s1, gen, FALSE)

\* A call of refresh by itself (the effect, or the component): a new hook
\* operation unless userId is empty.
StartRefresh(s, via) ==
  IF s.userId = "" THEN s
  ELSE LET h == Len(s.hops) + 1
           s1 == RefreshEnter(s, s.userId, s.hGen, h)
           hop == [kind |-> "refresh", via |-> via, uid |-> s.userId, gen |-> s.hGen,
                   pc |-> "awaitFetch", write |-> 0, fetch |-> Len(s.calls) + 1,
                   outcome |-> "pending", thrown |-> NullErr]
       IN [s1 EXCEPT !.hops = Append(s.hops, hop)]

\* Mutant: an effect without dependencies, run by every render.
EffectRuns_EveryRender(first, prevUserId, nextUserId) == TRUE

\* Mutant: an effect with empty dependencies, run by the first render only.
EffectRuns_MountOnly(first, prevUserId, nextUserId) == first

\* React.useEffect(() => { refresh(); }, [refresh]): refresh changes identity
\* exactly when userId does (getUser is stable), and the first render runs it.
EffectRuns(first, prevUserId, nextUserId) == first \/ prevUserId # nextUserId

\* Whether a render of the hook in state s runs the effect.
EffectRan(s, first, prevUserId) ==
  s.hMounted /\ EffectRuns(first, prevUserId, s.userId)

\* What a render of the mounted hook leads to: the effect, when its
\* dependencies changed, calls refresh.
AfterRender(s, first, prevUserId) ==
  IF EffectRan(s, first, prevUserId)
     /\ (s.userId # "" => (Room(s, 1) /\ Len(s.hops) < MaxHookOps))
  THEN StartRefresh(s, "effect")
  ELSE s

\* The re-render a state change causes: same props, so the same userId.
Rerender(s) == AfterRender(s, FALSE, s.userId)

RerenderRan(s) == EffectRan(s, FALSE, s.userId)

\* The fetch an effect started during the step from s to t (0: none).
AutoFetch(s, t) ==
  IF Len(t.hops) > Len(s.hops) /\ t.hops[Len(t.hops)].via = "effect"
  THEN t.hops[Len(t.hops)].fetch ELSE 0

WriteOp(kind) == IF kind = "update" THEN "updateUser" ELSE "setChannelData"

\* Mutant: no guard, the write is made for an empty userId too.
WriteEnter_NoGuard(s, kind) ==
  LET h == Len(s.hops) + 1
      s1 == HandleRequestEnter(
              SetHookError(SetHookLoading(s, s.hGen, TRUE), s.hGen, NullErr),
              WriteOp(kind), s.userId, h)
      hop == [kind |-> kind, via |-> "manual", uid |-> s.userId, gen |-> s.hGen,
              pc |-> "awaitWrite", write |-> Len(s.calls) + 1, fetch |-> 0,
              outcome |-> "pending", thrown |-> NullErr, userAt |-> s.user]
  IN [s1 EXCEPT !.hops = Append(s.hops, hop)]

\* Mutant: an optimistic update, the snapshot is replaced before the write.
WriteEnter_Optimistic(s, kind) ==
  IF s.userId = "" THEN s
  ELSE LET h == Len(s.hops) + 1
           s0 == SetUser(s, s.hGen, [kind |-> "record", id |-> s.userId, rev |-> 2])
           s1 == HandleRequestEnter(
                   SetHookError(SetHookLoading(s0, s.hGen, TRUE), s.hGen, NullErr),
                   WriteOp(kind), s.userId, h)
           hop == [kind |-> kind, via |-> "manual", uid |-> s.userId, gen |-> s.hGen,
                   pc |-> "awaitWrite", write |-> Len(s.calls) + 1, fetch |-> 0,
                   outcome |-> "pending", thrown |-> NullErr, userAt |-> s.user]
       IN [s1 EXCEPT !.hops = Append(s.hops, hop)]

\* update / setChannelData up to the await of the write:
\*   if (!userId) return; setLoading(true); setError(null); updateUser(...)
\* (userAt remembers the snapshot at the call, for the properties only).
WriteEnter(s, kind) ==
  IF s.userId = "" THEN s
  ELSE LET h == Len(s.hops) + 1
           s1 == HandleRequestEnter(
                   SetHookError(SetHookLoading(s, s.hGen, TRUE), s.hGen, NullErr),
                   WriteOp(kind), s.userId, h)
           hop == [kind |-> kind, via |-> "manual", uid |-> s.userId, gen |-> s.hGen,
                   pc |-> "awaitWrite", write |-> Len(s.calls) + 1, fetch |-> 0,
                   outcome |-> "pending", thrown |-> NullErr, userAt |-> s.user]
       IN [s1 EXCEPT !.hops = Append(s.hops, hop)]

\* Mutant: the re-fetch is made whether the write succeeded or not.
WriteExit_RefetchAlways(s, h) ==
  LET hop == s.hops[h]
      w == s.calls[hop.write]
      s1 == RefreshEnter(s, hop.uid, hop.gen, h)
  IN IF w.status = "resolved"
     THEN [s1 EXCEPT !.hops[h].pc = "awaitFetch",
                     !.hops[h].fetch = Len(s.calls) + 1]
     ELSE LET notiBoostError == Normalize(w.val)
              s2 == SetHookLoading(SetHookError(s1, hop.gen, notiBoostError),
                                   hop.gen, FALSE)
          IN [s2 EXCEPT !.hops[h].pc = "done", !.hops[h].outcome = "rejected",
                        !.hops[h].thrown = notiBoostError]

\* update / setChannelData once the write has settled: on success the call of
\* refresh (up to its await); on failure catch, setError, throw, finally.
WriteExit(s, h) ==
  LET hop == s.hops[h]
      w == s.calls[hop.write]
  IN IF w.status = "resolved"
     THEN LET s1 == RefreshEnter(s, hop.uid, hop.gen, h)
          IN [s1 EXCEPT !.hops[h].pc = "awaitFetch",
                        !.hops[h].fetch = Len(s.calls) + 1]
     ELSE LET notiBoostError == Normalize(w.val)
              s1 == SetHookLoading(SetHookError(s, hop.gen, notiBoostError),
                                   hop.gen, FALSE)
          IN [s1 EXCEPT !.hops[h].pc = "done", !.hops[h].outcome = "rejected",
                        !.hops[h].thrown = notiBoostError]

\* Mutant: refresh re-throws the error of a failed fetch.
FetchExit_Rethrow(s, h) ==
  LET hop == s.hops[h]
      s1 == RefreshExit(s, hop.gen, hop.fetch)
  IN IF s.calls[hop.fetch].status = "rejected"
     THEN LET s2 == IF hop.kind = "refresh" THEN s1
                    ELSE SetHookLoading(s1, hop.gen, FALSE)
          IN [s2 EXCEPT !.hops[h].pc = "done", !.hops[h].outcome = "rejected",
                        !.hops[h].thrown = s.calls[hop.fetch].val]
     ELSE IF hop.kind = "refresh"
          THEN [s1 EXCEPT !.hops[h].pc = "done", !.hops[h].outcome = "resolved"]
          ELSE [s1 EXCEPT !.hops[h].pc = "awaitRefresh"]

\* The continuation of refresh: for a refresh called alone the operation is
\* over (refresh has no throw); inside update it resolves the awaited promise.
FetchExit(s, h) ==
  LET hop == s.hops[h]
      s1 == RefreshExit(s, hop.gen, hop.fetch)
  IN IF hop.kind = "refresh"
     THEN [s1 EXCEPT !.hops[h].pc = "done", !.hops[h].outcome = "resolved"]
     ELSE [s1 EXCEPT !.hops[h].pc = "awaitRefresh"]

\* update / setChannelData after await refresh(): finally setLoading(false).
WriteDone(s, h) ==
  LET s1 == SetHookLoading(s, s.hops[h].gen, FALSE)
  IN [s1 EXCEPT !.hops[h].pc = "done", !.hops[h].outcome = "resolved"]

\* Hook operation h has a continuation that can run now: the promise it
\* awaits (the wrapped write, the wrapped fetch, or refresh) has settled.
Runnable(s, h) ==
  \/ s.hops[h].pc = "awaitRefresh"
  \/ s.hops[h].pc = "awaitWrite" /\ s.calls[s.hops[h].write].status # "pending"
  \/ s.hops[h].pc = "awaitFetch" /\ s.calls[s.hops[h].fetch].status # "pending"

\* A continuation is queued as a microtask: the event loop runs it before it
\* handles the next event.
MicrotaskQueued(s) == \E h \in 1..Len(s.hops) : Runnable(s, h)

\* ------------------------------------------------------------------ actions
DirectArg == "u1"

Init ==
  /\ provMounted = FALSE
  /\ props = ""
  /\ client = NoClient
  /\ built = 0
  /\ loading = FALSE
  /\ error = NullErr
  /\ calls = <<>>
  /\ hMounted = FALSE
  /\ hGen = 0
  /\ userId = ""
  /\ user = NullUser
  /\ hLoading = FALSE
  /\ hError = NullErr
  /\ hops = <<>>
  /\ ev = NoEv

provVars == <<provMounted, props, client, built>>
reqVars == <<loading, error, calls>>
hookVars == <<hMounted, hGen, userId, user, hLoading, hError, hops>>

\* A render of NotiBoostProvider with props cfg: the first one mounts it.
RenderProvider(cfg) ==
  LET c == UseStateClient(provMounted, client, cfg, built)
  IN /\ provMounted' = TRUE
     /\ props' = cfg
     /\ client' = c
     /\ built' = IF c = client THEN built ELSE built + 1
     /\ ev' = [kind |-> IF provMounted THEN "provRender" ELSE "provMount",
               before |-> client, effect |-> FALSE, auto |-> 0]
     /\ UNCHANGED <<reqVars, hookVars>>

\* A component calls hook with no provider above it (inside = FALSE), or
\* useNotiBoost / useEvent below the mounted provider.
RenderHook(hook, inside) ==
  /\ inside => (provMounted /\ hook # "useUser")
  /\ LET r == UseNotiBoost(ContextValue(inside))
     IN ev' = [kind |-> "renderHook", hook |-> hook, inside |-> inside,
               threw |-> r.threw, message |-> r.message,
               value |-> IF hook = "useEvent" /\ ~r.threw
                         THEN UseEvent(r.value) ELSE r.value,
               effect |-> FALSE, auto |-> 0]
  /\ UNCHANGED <<provVars, reqVars, hookVars>>

\* A component calls one of the eight wrapped operations of the context.
CallWrapped(op) ==
  /\ provMounted
  /\ Len(calls) < MaxDirect /\ Room(St, 1)
  /\ LET s == HandleRequestEnter(St, op, DirectArg, 0)
         t == Rerender(s)
     IN /\ Apply(t)
        /\ ev' = [kind |-> "start", call |-> Len(calls) + 1,
                  erased |-> (error # NullErr), others |-> Pending(St) # {},
                  effect |-> RerenderRan(s), auto |-> AutoFetch(St, t)]
  /\ UNCHANGED provVars

\* A component calls the ingest or the ingestBatch that useEvent returned.
CallEvent(fn) ==
  /\ provMounted
  /\ CallWrapped(UseEvent(ContextValue(TRUE))[fn])

\* The client's promise of call c has settled with outcome o and the
\* continuation of handleRequest runs.
SettleCall(c, o) ==
  /\ calls[c].status = "pending"
  /\ \E s \in {HandleRequestExit(St, c, o)} :
       \E t \in {Rerender(IF calls[c].owner = 0 THEN Forget(s, {c}, {}) ELSE s)} :
         /\ Apply(t)
         /\ ev' = [kind |-> IF o.ok THEN "resolve" ELSE "reject", call |-> c,
                   rec |-> s.calls[c], outcome |-> o, others |-> Pending(s) # {},
                   effect |-> RerenderRan(s), auto |-> AutoFetch(St, t)]
  /\ UNCHANGED provVars

\* The component calling useUser(uid) mounts below the provider.
MountUser(uid) ==
  /\ provMounted /\ ~hMounted /\ hGen < MaxMounts
  /\ uid # "" => (Room(St, 1) /\ Len(hops) < MaxHookOps)
  /\ LET s == [St EXCEPT !.hMounted = TRUE, !.hGen = hGen + 1, !.userId = uid,
                          !.user = NullUser, !.hLoading = FALSE, !.hError = NullErr]
         t == AfterRender(s, TRUE, "")
     IN /\ Apply(t)
        /\ ev' = [kind |-> "mount", effect |-> EffectRan(s, TRUE, ""),
                  auto |-> AutoFetch(St, t)]
  /\ UNCHANGED provVars

\* The parent renders the mounted component again, passing uid.
RenderUser(uid) ==
  /\ hMounted
  /\ (uid # "" /\ uid # userId) => (Room(St, 1) /\ Len(hops) < MaxHookOps)
  /\ LET s == [St EXCEPT !.userId = uid]
         t == AfterRender(s, FALSE, userId)
     IN /\ Apply(t)
        /\ ev' = [kind |-> IF uid = userId THEN "renderSame" ELSE "renderChanged",
                  effect |-> EffectRan(s, FALSE, userId), auto |-> AutoFetch(St, t)]
  /\ UNCHANGED provVars

\* The component unmounts: its state is gone.
UnmountUser ==
  /\ hMounted
  /\ Apply([St EXCEPT !.hMounted = FALSE, !.userId = "", !.user = NullUser,
                       !.hLoading = FALSE, !.hError = NullErr])
  /\ ev' = [kind |-> "unmount", effect |-> FALSE, auto |-> 0]
  /\ UNCHANGED provVars

\* The component calls the refresh the hook returned.
CallRefresh ==
  /\ hMounted
  /\ userId # "" => (Room(St, 1) /\ Len(hops) < MaxHookOps)
  /\ LET s == StartRefresh(St, "manual")
         t == Rerender(s)
     IN /\ Apply(t)
        /\ ev' = [kind |-> IF userId = "" THEN "hookNoop" ELSE "hookStart",
                  op |-> "refresh", hop |-> Len(s.hops), before |-> St,
                  effect |-> RerenderRan(s), auto |-> AutoFetch(s, t)]
  /\ UNCHANGED provVars

\* The component calls the update or the setChannelData the hook returned.
CallWrite(kind) ==
  /\ hMounted
  /\ userId # "" => (Room(St, 2) /\ Len(hops) < MaxHookOps)
  /\ LET s == WriteEnter(St, kind)
         t == Rerender(s)
     IN /\ Apply(t)
        /\ ev' = [kind |-> IF userId = "" THEN "hookNoop" ELSE "hookStart",
                  op |-> kind, hop |-> Len(s.hops), before |-> St,
                  effect |-> RerenderRan(s), auto |-> AutoFetch(s, t)]
  /\ UNCHANGED provVars

\* What a step of hook operation h observed: the operation's record after the
\* step, the records of its write and of its fetch, how many getUser calls
\* were made on its behalf, whether its hook instance is still mounted, and
\* the snapshot before the step.
HopEvent(kind, s, h, auto) ==
  [kind |-> kind, hop |-> h, rec |-> s.hops[h],
   write |-> IF s.hops[h].write = 0 THEN Done ELSE s.calls[s.hops[h].write],
   fetch |-> IF s.hops[h].fetch = 0 THEN Done ELSE s.calls[s.hops[h].fetch],
   fetches |-> Cardinality({ c \in Owned(s, h) : s.calls[c].op = "getUser" }),
   live |-> Live(s, s.hops[h].gen), userBefore |-> user,
   effect |-> RerenderRan(s), auto |-> auto]

\* (s1 and t are bound by \E so that the state after the step is computed
\* once.)
HopStep(kind, s, h) ==
  \E s1 \in {s} :
    \E t \in {Rerender(IF s1.hops[h].pc = "done"
                       THEN Forget(s1, Owned(s1, h), {h}) ELSE s1)} :
      /\ Apply(t)
      /\ ev' = HopEvent(kind, s1, h, AutoFetch(St, t))

\* The write of hook operation h has settled: update / setChannelData resumes.
ResumeWrite(h) ==
  /\ hops[h].pc = "awaitWrite"
  /\ calls[hops[h].write].status # "pending"
  /\ HopStep(IF calls[hops[h].write].status = "resolved" THEN "refetch" ELSE "hookReject",
             WriteExit(St, h), h)
  /\ UNCHANGED provVars

\* The fetch of hook operation h has settled: refresh resumes.
ResumeFetch(h) ==
  /\ hops[h].pc = "awaitFetch"
  /\ calls[hops[h].fetch].status # "pending"
  /\ HopStep("refreshDone", FetchExit(St, h), h)
  /\ UNCHANGED provVars

\* refresh has resolved inside update / setChannelData, which resumes.
ResumeDone(h) ==
  /\ hops[h].pc = "awaitRefresh"
  /\ HopStep("hookResolve", WriteDone(St, h), h)
  /\ UNCHANGED provVars

\* The first render of the provider.
MountProvider(cfg) == ~provMounted /\ RenderProvider(cfg)

\* The provider alone: its renders, components calling the hooks with or
\* without it, and every wrapped operation called directly.
NextProvider ==
  \/ \E cfg \in Configs : RenderProvider(cfg)
  \/ \E hook \in {"useNotiBoost", "useEvent", "useUser"}, inside \in BOOLEAN :
       RenderHook(hook, inside)
  \/ \E op \in Ops : CallWrapped(op)
  \/ \E fn \in {"ingest", "ingestBatch"} : CallEvent(fn)
  \/ \E c \in Pending(St) : \E o \in Outcomes(calls[c].uid) : SettleCall(c, o)

SpecProvider == Init /\ [][NextProvider]_vars

\* An application whose component uses useUser below the provider: every
\* wrapped call is made by the hook.
Next ==
  \/ MountProvider("key1")
  \/ ~MicrotaskQueued(St) /\
       \E c \in Pending(St) : \E o \in Outcomes(calls[c].uid) : SettleCall(c, o)
  \/ ~MicrotaskQueued(St) /\ \E uid \in UserIds : MountUser(uid)
  \/ ~MicrotaskQueued(St) /\ \E uid \in UserIds : RenderUser(uid)
  \/ ~MicrotaskQueued(St) /\ UnmountUser
  \/ ~MicrotaskQueued(St) /\ CallRefresh
  \/ ~MicrotaskQueued(St) /\ \E kind \in {"update", "setChannelData"} : CallWrite(kind)
  \/ \E h \in 1..Len(hops) : ResumeWrite(h)
  \/ \E h \in 1..Len(hops) : ResumeFetch(h)
  \/ \E h \in 1..Len(hops) : ResumeDone(h)

Spec == Init /\ [][Next]_vars

\* The same application when every client promise eventually settles (the
\* response of each pending call arrives) and the event loop eventually runs
\* every continuation that can run.
Fairness ==
  /\ \A c \in 1..MaxCalls :
       WF_vars(/\ c \in Pending(St)
               /\ ~MicrotaskQueued(St)
               /\ \E o \in Outcomes(calls[c].uid) : SettleCall(c, o))
  /\ \A h \in 1..MaxHookOps :
       WF_vars(/\ h \in 1..Len(hops)
               /\ (ResumeWrite(h) \/ ResumeFetch(h) \/ ResumeDone(h)))

SpecLive == Init /\ [][Next]_vars /\ Fairness

\* ------------------------------------------------------------------- claims
Settled == ev.kind \in {"resolve", "reject"}

\* C1: at the moment a wrapped call resolves or rejects, the provider's shared
\* loading flag is false, whatever other calls are in flight.
C1_LoadingFalseOnExit == Settled => loading = FALSE

\* A call has just rejected while another one is still pending.
C1_Witness == ev.kind = "reject" /\ ev.others /\ loading = FALSE

\* The wrapper the claim C2 describes: the original message for every thrown
\* value that is not a NotiBoostError.
C2_WrapperWithOriginalMessage(thrown) ==
  IF thrown.kind = "NotiBoostError" THEN thrown
  ELSE [kind |-> "NotiBoostError", message |-> thrown.message, statusCode |-> 0]

\* C2 as stated: when the client call rejects, the shared error is the thrown
\* value itself if it is a NotiBoostError, and otherwise a NotiBoostError with
\* the original message of the thrown value and status code 0.
C2_Original ==
  ev.kind = "reject" =>
    error # NullErr /\ error = C2_WrapperWithOriginalMessage(ev.outcome.val)

\* C2 as amended: when the client call rejects, the shared error is the thrown
\* value itself if it is a NotiBoostError; a NotiBoostError with the original
\* message and status code 0 if it is another Error instance; and a
\* NotiBoostError with the message 'Unknown error' and status code 0 if it is
\* not an Error instance.
C2_ErrorNormalized ==
  ev.kind = "reject" =>
    /\ error # NullErr
    /\ ev.outcome.val.kind = "NotiBoostError" => error = ev.outcome.val
    /\ ev.outcome.val.kind = "Error" =>
         error = [kind |-> "NotiBoostError", message |-> ev.outcome.val.message,
                  statusCode |-> 0]
    /\ ev.outcome.val.kind = "NonError" =>
         error = [kind |-> "NotiBoostError", message |-> "Unknown error",
                  statusCode |-> 0]

\* A value that is not an Error instance has just been thrown and wrapped.
C2_Witness ==
  /\ ev.kind = "reject"
  /\ ev.outcome.val.kind = "NonError"
  /\ error.message = "Unknown error"
  /\ error.statusCode = 0

C4_Original ==
  /\ ev.kind = "reject" => (ev.rec.status = "rejected" /\ error = ev.rec.val)
  /\ ev.kind = "hookReject" =>
       /\ ev.rec.outcome = "rejected"
       /\ ev.live => hError = ev.rec.thrown
  /\ (ev.kind = "refreshDone" /\ ev.fetch.status = "rejected") =>
       /\ ev.live => hError = ev.fetch.val
       /\ ev.rec.kind = "refresh" => ev.rec.outcome = "rejected"
  /\ ev.kind = "hookResolve" => ev.fetch.status # "rejected"

\* C4 as amended: every failure of a wrapped operation, and every failure of
\* the write of the user hook's update or setChannelData, is stored in the
\* error state (the hook's own while it is mounted) and the same normalized
\* error is re-thrown to the caller; a failed fetch of refresh is stored in the
\* hook's error state only, and refresh resolves.
C4_ErrorStoredAndThrown ==
  /\ ev.kind = "reject" =>
       /\ ev.rec.status = "rejected"
       /\ ev.rec.val.kind = "NotiBoostError"
       /\ error = ev.rec.val
  /\ ev.kind = "hookReject" =>
       /\ ev.rec.outcome = "rejected"
       /\ ev.rec.thrown = ev.write.val
       /\ ev.live => hError = ev.rec.thrown
  /\ (ev.kind = "refreshDone" /\ ev.fetch.status = "rejected") =>
       /\ ev.live => hError = ev.fetch.val
       /\ ev.rec.outcome # "rejected"

\* The write of an update has just failed on a mounted hook: the error is in
\* the hook's state and thrown.
C4_Witness ==
  /\ ev.kind = "hookReject"
  /\ ev.live
  /\ ev.rec.outcome = "rejected"
  /\ hError = ev.rec.thrown
  /\ hError # NullErr

HopStepOfWrite ==
  \/ ev.kind = "hookStart" /\ ev.op # "refresh"
  \/ ev.kind \in {"refetch", "hookReject", "hookResolve"}
  \/ ev.kind = "refreshDone" /\ ev.rec.kind # "refresh"

EffectFetched ==
  /\ ev.auto # 0
  /\ calls[ev.auto].status = "pending"
  /\ calls[ev.auto].op = "getUser"
  /\ calls[ev.auto].uid = userId

\* C6 as stated: the hook fetches its userId when it mounts and each time the
\* userId changes, and makes no automatic fetch at any other time; a remount
\* starts from no snapshot and fetches again.
C6_Original ==
  /\ ev.kind \in {"mount", "renderChanged"} => (ev.effect /\ EffectFetched)
  /\ ev.kind \notin {"mount", "renderChanged"} => (~ev.effect /\ ev.auto = 0)
  /\ ev.kind = "mount" => user = NullUser

\* C6 as amended: the hook fetches its userId when it mounts and each time the
\* userId changes, provided the userId is not empty (for an empty userId it
\* fetches nothing), and makes no automatic fetch at any other time; a remount
\* starts from no snapshot and fetches again.
C6_FetchOnMountAndChange ==
  /\ ev.kind \in {"mount", "renderChanged"} => ev.effect
  /\ (ev.kind \in {"mount", "renderChanged"} /\ userId # "") => EffectFetched
  /\ (ev.kind \in {"mount", "renderChanged"} /\ userId = "") => ev.auto = 0
  /\ ev.kind \notin {"mount", "renderChanged"} => (~ev.effect /\ ev.auto = 0)
  /\ ev.kind = "mount" => user = NullUser

\* The component has just mounted a second time and fetches again.
C6_Witness == ev.kind = "mount" /\ hGen > 1 /\ EffectFetched

\* C7: the calls share one slot, the last write wins: a call that settles
\* sets loading to false although another call is still pending, and a call
\* that starts erases the error an earlier call stored.
C7_LastWriteWins ==
  /\ (Settled /\ ev.others) => (loading = FALSE /\ Pending(St) # {})
  /\ (ev.kind = "start" /\ ev.erased) => error = NullErr

\* Call A is pending while loading is false, because call B has just settled.
C7_Witness == Settled /\ Pending(St) # {} /\ loading = FALSE

\* C8: a hook called with no provider above throws the Error 'useNotiBoost
\* must be used within NotiBoostProvider', changing no state and issuing no
\* call; useNotiBoost never returns undefined.
C8_ThrowsOutsideProvider ==
  /\ [][(ev'.kind = "renderHook" /\ ~ev'.inside) =>
         /\ ev'.threw
         /\ ev'.message = "useNotiBoost must be used within NotiBoostProvider"
         /\ UNCHANGED <<provVars, reqVars, hookVars>>]_vars
  /\ []((ev.kind = "renderHook" /\ ~ev.threw) => ev.value # Undefined)

\* useUser has just thrown in a component outside the mounted provider.
C8_Witness ==
  ev.kind = "renderHook" /\ ev.hook = "useUser" /\ ~ev.inside /\ ev.threw /\ provMounted

\* C9: a mounted provider has built exactly one client, from the props of its
\* first render, and no later step (a render with other props, a wrapped
\* call) replaces it.
C9_OneClient ==
  /\ [](provMounted => (built = 1 /\ client.kind = "client"))
  /\ [][/\ provMounted => client' = client
        /\ (~provMounted /\ provMounted') => client'.cfg = props']_vars

\* The provider has been rendered with other props after a wrapped call and
\* still exposes the client of its first render.
C9_Witness ==
  /\ ev.kind = "provRender"
  /\ client = ev.before
  /\ client.cfg # props
  /\ Len(calls) > 0

\* The client method that corresponds to each wrapped operation.
C10_Method ==
  [ingestEvent |-> "events.ingest", ingestEventBatch |-> "events.ingestBatch",
   createUser |-> "users.create", getUser |-> "users.get",
   updateUser |-> "users.update", deleteUser |-> "users.delete",
   setChannelData |-> "users.setChannelData",
   setPreferences |-> "users.setPreferences"]

\* C10: a wrapped operation has invoked the corresponding client method
\* exactly once, while it is pending and when it has resolved or rejected.
C10_InvokedOnce ==
  /\ \A c \in Pending(St) : calls[c].invoked = <<C10_Method[calls[c].op]>>
  /\ Settled => ev.rec.invoked = <<C10_Method[ev.rec.op]>>

\* A wrapped call has just rejected after one invocation of its method.
C10_Witness == ev.kind = "reject" /\ Len(ev.rec.invoked) = 1 /\ Pending(St) # {}

\* C11: when the client call of a wrapped operation succeeds with value v, the
\* operation resolves with exactly v, and the step that returns it leaves the
\* shared error as it was (the success path does not write it).
C11_ResultUnchanged ==
  [][ev'.kind = "resolve" =>
       /\ ev'.rec.status = "resolved"
       /\ ev'.rec.val = ev'.outcome.val
       /\ ev'.rec.val \in Results(ev'.rec.uid)
       /\ error' = error]_vars

\* A call has just resolved with the client's value while the error another
\* call stored in the meantime is still there.
C11_Witness ==
  /\ ev.kind = "resolve"
  /\ ev.rec.val = ev.outcome.val
  /\ ev.rec.rejSince
  /\ error # NullErr

\* What a component using useEvent sees in the current state.
C12_View == UseEvent(ContextValue(TRUE))

Quiescent ==
  /\ Pending(St) = {}
  /\ \A h \in 1..Len(hops) : hops[h].pc = "done"

\* C13: once every request has settled, the snapshot is the record of the
\* most recently started fetch that succeeded.  On a mounted hook with a
\* non-empty userId and no error, the most recently started fetch is the one
\* for the current userId and it succeeded (every failure after the last
\* start would have left an error), so the snapshot must be a record of the
\* current userId.
C13_SnapshotOfLatestFetch ==
  (hMounted /\ Quiescent /\ userId # "" /\ hError = NullErr) =>
    (user # NullUser /\ user.id = userId)

\* C14: when the write of update or setChannelData fails, no getUser is
\* called for the operation, the snapshot is left as it was, the operation
\* rejects with the normalized error, and on the still mounted hook the error
\* is that normalized error and loading is false.
C14_WriteFailure ==
  ev.kind = "hookReject" =>
    /\ ev.write.status = "rejected"
    /\ ev.fetches = 0
    /\ ev.rec.fetch = 0
    /\ ev.auto = 0
    /\ user = ev.userBefore
    /\ ev.rec.outcome = "rejected"
    /\ ev.rec.thrown.kind = "NotiBoostError"
    /\ ev.rec.thrown = ev.write.val
    /\ ev.live => (hError = ev.rec.thrown /\ hLoading = FALSE)

\* The write of a setChannelData has just failed on a mounted hook that holds
\* a snapshot: the snapshot is kept, no fetch was made, the error is stored.
C14_Witness ==
  /\ ev.kind = "hookReject"
  /\ ev.rec.kind = "setChannelData"
  /\ ev.live
  /\ ev.fetches = 0
  /\ user # NullUser
  /\ user = ev.userBefore
  /\ hError = ev.rec.thrown
  /\ hLoading = FALSE

\* C15 as amended: no step of update or setChannelData itself changes the
\* snapshot before its re-fetch has succeeded (not the call, not the
\* resumption after the write, not a failed re-fetch), and the re-fetch is
\* started only once the write has resolved: while the write is pending the
\* operation has made no getUser call, and while its fetch is pending its
\* write has resolved.
C15_NoOptimisticUpdate ==
  /\ (ev.kind = "hookStart" /\ ev.op # "refresh") =>
       /\ user = ev.before.user
       /\ hops[ev.hop].fetch = 0
       /\ calls[hops[ev.hop].write].status = "pending"
  /\ ev.kind = "refetch" =>
       /\ user = ev.userBefore
       /\ ev.write.status = "resolved"
       /\ ev.fetch.status = "pending"
       /\ ev.fetch.op = "getUser"
  /\ ev.kind = "hookReject" => user = ev.userBefore
  /\ (ev.kind = "refreshDone" /\ ev.rec.kind # "refresh"
        /\ ev.fetch.status = "rejected") => user = ev.userBefore
  /\ \A h \in 1..Len(hops) :
       /\ hops[h].pc = "awaitWrite" =>
            /\ hops[h].fetch = 0
            /\ \A c \in Owned(St, h) : calls[c].op # "getUser"
       /\ (hops[h].pc = "awaitFetch" /\ hops[h].kind # "refresh") =>
            calls[hops[h].write].status = "resolved"

\* C15 as stated: in addition, from the call of update or setChannelData until
\* its re-fetch has succeeded the snapshot does not change at all: the
\* completion of another fetch of the hook in that interval leaves it as it
\* was.
C15_Original ==
  /\ C15_NoOptimisticUpdate
  /\ (/\ ev.kind = "refreshDone"
      /\ ev.live
      /\ \E h \in 1..Len(hops) :
           /\ h # ev.hop
           /\ hops[h].pc \in {"awaitWrite", "awaitFetch"}
           /\ hops[h].kind # "refresh"
           /\ hops[h].gen = hGen) => user = ev.userBefore

\* The write of an update has just resolved on a hook that holds a snapshot:
\* the re-fetch is pending and the snapshot is still the one before the call.
C15_Witness ==
  /\ ev.kind = "refetch"
  /\ ev.live
  /\ ev.write.status = "resolved"
  /\ ev.fetch.status = "pending"
  /\ user # NullUser
  /\ user = ev.userBefore

C17_EmptyUserIdNoop ==
  /\ ev.kind = "hookNoop" =>
       /\ ev.before.userId = ""
       /\ St = ev.before
       /\ ev.hop = Len(ev.before.hops)
       /\ ev.auto = 0
  /\ ev.kind = "hookStart" =>
       /\ ev.before.userId # ""
       /\ Len(calls) = Len(ev.before.calls) + 1
  /\ (ev.kind \in {"mount", "renderChanged"} /\ userId = "") =>
       /\ ev.effect
       /\ ev.auto = 0
       /\ \A c \in Pending(St) : hops[calls[c].owner].uid # ""
  /\ \A c \in Pending(St) : calls[c].uid # ""

\* update has just been called on a hook whose userId is now empty, while the
\* hook still holds the snapshot of its previous userId: nothing has changed.
C17_Witness ==
  /\ ev.kind = "hookNoop"
  /\ ev.op = "update"
  /\ userId = ""
  /\ user # NullUser
  /\ St = ev.before
  /\ Pending(St) = {}

\* C18: when every client call eventually settles, every wrapped call and
\* every hook operation eventually settles, and whenever nothing is in flight
\* the provider's loading and the hook's loading are both false.
C18_SettlesAndIdle ==
  /\ \A c \in 1..MaxCalls : (c \in Pending(St)) ~> (c \notin Pending(St))
  /\ \A h \in 1..MaxHookOps :
       (h \in 1..Len(hops) /\ hops[h].pc # "done")
         ~> (h \in 1..Len(hops) /\ hops[h].pc = "done")
  /\ [](Quiescent => (loading = FALSE /\ hLoading = FALSE))

\* Two hook operations and three wrapped calls have run, the last of them
\* failed, nothing is in flight any more and both loading flags are false.
C18_Witness ==
  /\ Quiescent
  /\ hMounted
  /\ Len(hops) >= 2
  /\ Len(calls) >= 3
  /\ hError # NullErr
  /\ error # NullErr
  /\ loading = FALSE
  /\ hLoading = FALSE

====
